---- MODULE Spec2Model ----
(***************************************************************************)
(* A model of parts of the wild linker:                                    *)
(*   - wild_lib/src/args.rs        Args::parse, the policy queries and     *)
(*                                 the debug-fuel counter                  *)
(*   - wild_lib/src/elf.rs         RelocationKindInfo::from_raw            *)
(*   - wild_lib/src/validation.rs  validate_bytes / validate_object        *)
(* Arguments are strings; TLC evaluates Len, SubSeq and \o on strings, so  *)
(* strip_prefix / starts_with are computed on the characters.              *)
(***************************************************************************)
EXTENDS Integers, Sequences, FiniteSets, TLC

VARIABLES
    tokens,     \* the argument strings the command line is drawn from
    env_validate, \* value of the WILD_VALIDATE_OUTPUT environment variable
    argv,       \* items the argument iterator has yielded so far
    eof,        \* the iterator has returned None
    pc,         \* position in Args::parse: "start", "loop", "finish", "done"
    locals,     \* the local variables of Args::parse
    result,     \* what Args::parse returned
    r_type,     \* the code last passed to RelocationKindInfo::from_raw
    classified, \* what that call returned
    prev_call,  \* the call to from_raw before it: its code and its result
    layout,     \* the part of the Layout that validation has iterated over
    file_bytes, \* the output file handed to validate_bytes
    overflow_checks, \* the build panics on integer overflow (else it wraps)
    v_pc,       \* position in validate_bytes / validate_object
    validated,  \* what validate_bytes returned
    debug_fuel, \* Args::debug_fuel, the atomic fuel counter (None when unset)
    budget,     \* the value debug_fuel was created with
    in_call,    \* per thread: the call to use_debug_fuel_on_last it is inside
    calls,      \* the calls made, in the order of their fetch_sub
    cb_calls    \* the calls that invoked last_cb, in the order they did

args_vars == <<tokens, env_validate, argv, eof, pc, locals, result>>
reloc_vars == <<r_type, classified, prev_call>>
val_vars == <<layout, file_bytes, overflow_checks, v_pc, validated>>
fuel_vars == <<debug_fuel, budget, in_call, calls, cb_calls>>
vars == <<args_vars, reloc_vars, val_vars, fuel_vars>>

(***************************************************************************)
(* Bounds                                                                  *)
(***************************************************************************)
\* Number of arguments after the program name.
MaxArgs == 5
\* Largest value std::thread::available_parallelism() reports.
MaxCpus == 2
\* Largest relocation-type code of the contiguous range handed to from_raw.
MaxRType == 127
\* Number of resolutions (of global symbols and of sections) in a layout.
MaxResolutions == 2
\* Number of file layouts in a layout.
MaxFiles == 1
\* Largest debug-fuel budget.
MaxFuel == 2
\* Number of threads that call use_debug_fuel_on_last.
MaxThreads == 2
\* Number of calls to use_debug_fuel_on_last.
MaxCalls == 4

(***************************************************************************)
(* Option<T>                                                               *)
(***************************************************************************)
NoneV == [some |-> FALSE]
Some(x) == [some |-> TRUE, v |-> x]

Last(s) == s[Len(s)]

(***************************************************************************)
(* str helpers                                                             *)
(***************************************************************************)
StartsWith(s, pre) == Len(s) >= Len(pre) /\ SubSeq(s, 1, Len(pre)) = pre

\* str::strip_prefix: Some(rest) when s starts with pre.
StripPrefix(s, pre) ==
    IF StartsWith(s, pre) THEN Some(SubSeq(s, Len(pre) + 1, Len(s))) ELSE NoneV

DigitValue(c) ==
    CASE c = "0" -> 0 [] c = "1" -> 1 [] c = "2" -> 2 [] c = "3" -> 3
      [] c = "4" -> 4 [] c = "5" -> 5 [] c = "6" -> 6 [] c = "7" -> 7
      [] c = "8" -> 8 [] c = "9" -> 9 [] OTHER -> -1

IsDigits(s) ==
    Len(s) > 0 /\ \A i \in 1..Len(s) : DigitValue(SubSeq(s, i, i)) >= 0

RECURSIVE DecimalValue(_)
DecimalValue(s) ==
    IF Len(s) = 0 THEN 0
    ELSE 10 * DecimalValue(SubSeq(s, 1, Len(s) - 1))
         + DigitValue(SubSeq(s, Len(s), Len(s)))

\* str::parse::<usize>(): an optional '+' and at least one digit.
ParseUsize(s) ==
    LET body == IF StartsWith(s, "+") THEN SubSeq(s, 2, Len(s)) ELSE s
    IN  IF IsDigits(body) THEN Some(DecimalValue(body)) ELSE NoneV

\* str::parse::<i64>(): an optional sign and at least one digit.
ParseI64(s) ==
    LET neg  == StartsWith(s, "-")
        body == IF neg \/ StartsWith(s, "+") THEN SubSeq(s, 2, Len(s)) ELSE s
    IN  IF IsDigits(body)
        THEN Some(IF neg THEN 0 - DecimalValue(body) ELSE DecimalValue(body))
        ELSE NoneV

(***************************************************************************)
(* args.rs: types                                                          *)
(***************************************************************************)
OutputKind == {"StaticExecutable", "DynamicExecutable", "SharedObject"}

\* impl Default for Modifiers
ModifiersDefault == [as_needed |-> FALSE, allow_shared |-> TRUE]

IGNORED_FLAGS ==
    {"--eh-frame-hdr", "--build-id", "--gc-sections", "--start-group",
     "--end-group", "-nostdlib", "--no-undefined-version"}

\* The local variables of Args::parse as first assigned.
InitLocals(validate) ==
    [lib_search_path     |-> <<>>,
     inputs              |-> <<>>,
     output              |-> NoneV,
     dynamic_linker      |-> NoneV,
     output_kind         |-> "StaticExecutable",
     time_phases         |-> FALSE,
     num_threads         |-> NoneV,
     strip_all           |-> FALSE,
     strip_debug         |-> FALSE,
     prepopulate_maps    |-> FALSE,
     sym_info            |-> NoneV,
     merge_strings       |-> TRUE,
     debug_fuel          |-> NoneV,
     validate_output     |-> validate,
     pie                 |-> FALSE,
     modifier_stack      |-> <<ModifiersDefault>>,
     version_script_path |-> NoneV]

(***************************************************************************)
(* args.rs: the if / else-if chain of Args::parse.  Branch names the first *)
(* condition of the chain that the argument satisfies.                     *)
(***************************************************************************)
Branch(arg) ==
    IF StartsWith(arg, "-L") THEN
        (IF Len(arg) = 2 THEN "-L next" ELSE "-L rest")
    ELSE IF StartsWith(arg, "-l") THEN "-l"
    ELSE IF arg = "-static" \/ arg = "-Bstatic" THEN "-static"
    ELSE IF arg = "-Bdynamic" THEN "-Bdynamic"
    ELSE IF arg = "-o" THEN "-o"
    ELSE IF arg = "--dynamic-linker" \/ arg = "-dynamic-linker" THEN "--dynamic-linker"
    ELSE IF arg = "--no-dynamic-linker" THEN "--no-dynamic-linker"
    ELSE IF StartsWith(arg, "--hash-style=") THEN "--hash-style="
    ELSE IF StartsWith(arg, "--build-id=") THEN "--build-id="
    ELSE IF arg = "--time" THEN "--time"
    ELSE IF StartsWith(arg, "--threads=") THEN "--threads="
    ELSE IF arg = "--strip-all" THEN "--strip-all"
    ELSE IF arg = "--strip-debug" THEN "--strip-debug"
    ELSE IF arg = "-z" \/ arg = "-m" THEN "-z"
    ELSE IF StartsWith(arg, "-O") THEN "-O"
    ELSE IF arg = "--prepopulate-maps" THEN "--prepopulate-maps"
    ELSE IF arg = "--sym-info" THEN "--sym-info"
    ELSE IF arg = "--as-needed" THEN "--as-needed"
    ELSE IF arg = "--no-as-needed" THEN "--no-as-needed"
    ELSE IF arg = "--push-state" THEN "--push-state"
    ELSE IF arg = "--pop-state" THEN "--pop-state"
    ELSE IF StartsWith(arg, "--version-script=") THEN "--version-script="
    ELSE IF arg = "--no-string-merge" THEN "--no-string-merge"
    ELSE IF arg = "-pie" THEN "-pie"
    ELSE IF arg = "-shared" THEN "-shared"
    ELSE IF StartsWith(arg, "-plugin-opt=") THEN "-plugin-opt="
    ELSE IF arg = "-plugin" THEN "-plugin"
    ELSE IF arg = "--validate-output" THEN "--validate-output"
    ELSE IF StartsWith(arg, "--debug-fuel=") THEN "--debug-fuel="
    ELSE IF arg = "--help" THEN "--help"
    ELSE IF arg \in IGNORED_FLAGS THEN "ignored"
    ELSE IF StartsWith(arg, "-") THEN "unrecognised"
    ELSE "file"

\* Variant of ConsumesNext in which -plugin does not take a value.
ConsumesNextNoPlugin(branch) ==
    branch \in {"-L next", "-o", "--dynamic-linker", "-z", "--sym-info"}

\* The branches whose body calls input.next().
ConsumesNext(branch) ==
    branch \in {"-L next", "-o", "--dynamic-linker", "-z", "--sym-info", "-plugin"}

\* Outcome of one branch body: the new locals, or the error of a bail! or
\* of the ? operator.  Messages are written without the quoting backticks,
\* which are not characters of a TLA+ string.
Continue(st) == [st |-> st, err |-> NoneV]
Bail(st, msg) == [st |-> st, err |-> Some(msg)]

\* inputs.push(Input { spec, search_first: None, modifiers: *modifier_stack.last().unwrap() })
PushInput(st, spec) ==
    [st EXCEPT !.inputs = Append(@, [spec         |-> spec,
                                     search_first |-> NoneV,
                                     modifiers    |-> Last(st.modifier_stack)])]

\* Variant of SetAllowShared in which recorded inputs alias the current
\* modifiers instead of holding a copy of them.
SetAllowSharedAliased(st, b) ==
    [st EXCEPT !.modifier_stack[Len(st.modifier_stack)].allow_shared = b,
               !.inputs = [i \in DOMAIN @ |-> [@[i] EXCEPT !.modifiers.allow_shared = b]]]

\* modifier_stack.last_mut().unwrap().allow_shared = b
SetAllowShared(st, b) ==
    [st EXCEPT !.modifier_stack[Len(st.modifier_stack)].allow_shared = b]

\* modifier_stack.last_mut().unwrap().as_needed = b
SetAsNeeded(st, b) ==
    [st EXCEPT !.modifier_stack[Len(st.modifier_stack)].as_needed = b]

\* Variant of PushState that pushes the default modifiers.
PushStateDefault(st) ==
    [st EXCEPT !.modifier_stack = Append(@, ModifiersDefault)]

\* modifier_stack.push(*modifier_stack.last().unwrap())
PushState(st) ==
    [st EXCEPT !.modifier_stack = Append(@, Last(st.modifier_stack))]

\* Variant of PopState that tests for an empty stack before it pops.
PopStateTestFirst(st) ==
    LET popped == [st EXCEPT !.modifier_stack = SubSeq(@, 1, Len(@) - 1)]
    IN  IF Len(st.modifier_stack) = 0
        THEN Bail(popped, "Mismatched --pop-state")
        ELSE Continue(popped)

\* modifier_stack.pop(); bail when the stack became empty
PopState(st) ==
    LET popped == [st EXCEPT !.modifier_stack = SubSeq(@, 1, Len(@) - 1)]
    IN  IF Len(popped.modifier_stack) = 0
        THEN Bail(popped, "Mismatched --pop-state")
        ELSE Continue(popped)

\* lib_search_path.push(path)
PushLibSearchPath(st, path) ==
    [st EXCEPT !.lib_search_path = Append(@, path)]

\* --threads=<rest>: rest.parse::<usize>()? then NonZeroUsize::try_from(..)?
SetThreads(st, rest) ==
    LET n == ParseUsize(rest)
    IN  IF ~n.some THEN Bail(st, "invalid digit found in string")
        ELSE IF n.v = 0 THEN Bail(st, "out of range integral type conversion attempted")
        ELSE Continue([st EXCEPT !.num_threads = Some(n.v)])

\* --debug-fuel=<rest>: the fuel counter is set and num_threads becomes 1
SetDebugFuel(st, rest) ==
    LET n == ParseI64(rest)
    IN  IF ~n.some THEN Bail(st, "invalid digit found in string")
        ELSE Continue([st EXCEPT !.debug_fuel = Some(n.v),
                                 !.num_threads = Some(1)])

\* Variant of CheckHashStyle that also accepts the sysv style.
CheckHashStyleSysvToo(st, style) ==
    IF style \notin {"gnu", "sysv"}
    THEN Bail(st, "Unsupported hash-style " \o style)
    ELSE Continue(st)

\* --hash-style=<style>: every style but gnu is refused
CheckHashStyle(st, style) ==
    IF style # "gnu"
    THEN Bail(st, "Unsupported hash-style " \o style)
    ELSE Continue(st)

\* The body of the branch taken for arg.  nxt is what input.next() returned
\* in a branch that calls it; io_ok is whether save_dir.handle_file succeeded.
BranchBody(st, arg, nxt, io_ok) ==
    LET b == Branch(arg) IN
    CASE b = "-L next" ->
            Continue(IF nxt.some THEN PushLibSearchPath(st, nxt.v) ELSE st)
      [] b = "-L rest" ->
            Continue(PushLibSearchPath(st, StripPrefix(arg, "-L").v))
      [] b = "-l" ->
            Continue(PushInput(st, [tag |-> "Lib", name |-> StripPrefix(arg, "-l").v]))
      [] b = "-static" -> Continue(SetAllowShared(st, FALSE))
      [] b = "-Bdynamic" -> Continue(SetAllowShared(st, TRUE))
      [] b = "-o" -> Continue([st EXCEPT !.output = nxt])
      [] b = "--dynamic-linker" ->
            Continue([st EXCEPT !.output_kind = "DynamicExecutable",
                                !.dynamic_linker = nxt])
      [] b = "--no-dynamic-linker" -> Continue([st EXCEPT !.dynamic_linker = NoneV])
      [] b = "--hash-style=" -> CheckHashStyle(st, StripPrefix(arg, "--hash-style=").v)
      [] b = "--build-id=" -> Continue(st)
      [] b = "--time" -> Continue([st EXCEPT !.time_phases = TRUE])
      [] b = "--threads=" -> SetThreads(st, StripPrefix(arg, "--threads=").v)
      [] b = "--strip-all" ->
            Continue([st EXCEPT !.strip_all = TRUE, !.strip_debug = TRUE])
      [] b = "--strip-debug" -> Continue([st EXCEPT !.strip_debug = TRUE])
      [] b = "-z" -> Continue(st)
      [] b = "-O" -> Continue(st)
      [] b = "--prepopulate-maps" -> Continue([st EXCEPT !.prepopulate_maps = TRUE])
      [] b = "--sym-info" -> Continue([st EXCEPT !.sym_info = nxt])
      [] b = "--as-needed" -> Continue(SetAsNeeded(st, TRUE))
      [] b = "--no-as-needed" -> Continue(SetAsNeeded(st, FALSE))
      [] b = "--push-state" -> Continue(PushState(st))
      [] b = "--pop-state" -> PopState(st)
      [] b = "--version-script=" ->
            IF ~io_ok THEN Bail(st, "save_dir: I/O error")
            ELSE Continue([st EXCEPT !.version_script_path =
                               Some(StripPrefix(arg, "--version-script=").v)])
      [] b = "--no-string-merge" -> Continue([st EXCEPT !.merge_strings = FALSE])
      [] b = "-pie" -> Continue([st EXCEPT !.pie = TRUE])
      [] b = "-shared" -> Continue([st EXCEPT !.output_kind = "SharedObject"])
      [] b = "-plugin-opt=" -> Continue(st)
      [] b = "-plugin" -> Continue(st)
      [] b = "--validate-output" -> Continue([st EXCEPT !.validate_output = TRUE])
      [] b = "--debug-fuel=" -> SetDebugFuel(st, StripPrefix(arg, "--debug-fuel=").v)
      [] b = "--help" -> Bail(st, "Sorry, help isn't implemented yet")
      [] b = "ignored" -> Continue(st)
      [] b = "unrecognised" -> Bail(st, "Unrecognised argument " \o arg)
      [] b = "file" ->
            IF ~io_ok THEN Bail(st, "save_dir: I/O error")
            ELSE Continue(PushInput(st, [tag |-> "File", name |-> arg]))

\* Branches that call save_dir.handle_file.
CallsSaveDir(branch) == branch \in {"--version-script=", "file"}

\* The Args value built at the end of Args::parse.
MakeArgs(st, threads) ==
    [lib_search_path     |-> st.lib_search_path,
     inputs              |-> st.inputs,
     output              |-> st.output.v,
     dynamic_linker      |-> st.dynamic_linker,
     output_kind         |-> st.output_kind,
     time_phases         |-> st.time_phases,
     num_threads         |-> threads,
     strip_all           |-> st.strip_all,
     strip_debug         |-> st.strip_debug,
     prepopulate_maps    |-> st.prepopulate_maps,
     sym_info            |-> st.sym_info,
     merge_strings       |-> st.merge_strings,
     debug_fuel          |-> st.debug_fuel,
     pie                 |-> st.pie,
     validate_output     |-> st.validate_output,
     version_script_path |-> st.version_script_path]

Ok(args) == [status |-> "ok", args |-> args]
Err(msg) == [status |-> "err", msg |-> msg]
NoResult == [status |-> "none"]

\* What input.next() can return: None once the iterator is exhausted or the
\* command line has reached MaxArgs arguments, otherwise None or an argument.
NextItems ==
    IF eof \/ Len(argv) >= MaxArgs + 1
    THEN {NoneV}
    ELSE {NoneV} \cup {Some(t) : t \in tokens}

Yield(seq, item) == IF item.some THEN Append(seq, item.v) ELSE seq

(***************************************************************************)
(* args.rs: policy queries on a parsed Args                                *)
(***************************************************************************)
NON_PIE_START_MEM_ADDRESS == 4194304

base_address(args) ==
    IF args.pie THEN 0 ELSE NON_PIE_START_MEM_ADDRESS

\* Variant of tls_mode that selects LocalExec from is_relocatable().
tls_mode_by_relocatable(args) ==
    IF ~(args.pie \/ args.output_kind # "StaticExecutable")
    THEN "LocalExec" ELSE "Preserve"

\* Variant of tls_mode that selects LocalExec for every executable.
tls_mode_by_executable(args) ==
    IF args.output_kind # "SharedObject" THEN "LocalExec" ELSE "Preserve"

tls_mode(args) ==
    IF args.output_kind = "StaticExecutable" THEN "LocalExec" ELSE "Preserve"

is_relocatable(args) ==
    args.pie \/ args.output_kind # "StaticExecutable"

needs_dynamic(args) == is_relocatable(args)

(***************************************************************************)
(* args.rs: debug fuel                                                     *)
(***************************************************************************)
\* i64::MAX, which use_debug_fuel returns when no fuel counter is set.  It
\* stands here as the largest integer TLC holds; the callers only test
\* whether the value is positive, zero or negative.
I64_MAX == 2147483647

\* Variant of use_debug_fuel that returns what fetch_sub returned, the
\* counter before the decrement.
use_debug_fuel_previous(fuel) ==
    IF ~fuel.some
    THEN [value |-> I64_MAX, fuel |-> fuel]
    ELSE [value |-> fuel.v, fuel |-> Some(fuel.v - 1)]

\* use_debug_fuel: the value it returns and the counter it leaves.  The
\* fetch_sub is one atomic read-modify-write.
use_debug_fuel(fuel) ==
    IF ~fuel.some
    THEN [value |-> I64_MAX, fuel |-> fuel]
    ELSE [value |-> fuel.v - 1, fuel |-> Some(fuel.v - 1)]

\* The match of use_debug_fuel_on_last on the value use_debug_fuel
\* returned: what the call returns and whether it invokes last_cb.
MatchFuel(value) ==
    IF value >= 1 THEN [ret |-> TRUE, last_cb |-> FALSE]
    ELSE IF value = 0 THEN [ret |-> TRUE, last_cb |-> TRUE]
    ELSE [ret |-> FALSE, last_cb |-> FALSE]

Threads == 1..MaxThreads

FuelIdle ==
    /\ debug_fuel = NoneV
    /\ budget = NoneV
    /\ in_call = <<>>
    /\ calls = <<>>
    /\ cb_calls = <<>>

(***************************************************************************)
(* elf.rs: RelocationKindInfo::from_raw                                    *)
(***************************************************************************)
\* The relocation-type codes of object::elf that from_raw matches on.
R_X86_64_NONE == 0
R_X86_64_64 == 1
R_X86_64_PC32 == 2
R_X86_64_GOT32 == 3
R_X86_64_PLT32 == 4
R_X86_64_GOTPCREL == 9
R_X86_64_32 == 10
R_X86_64_32S == 11
R_X86_64_16 == 12
R_X86_64_PC16 == 13
R_X86_64_8 == 14
R_X86_64_PC8 == 15
R_X86_64_TLSGD == 19
R_X86_64_TLSLD == 20
R_X86_64_DTPOFF32 == 21
R_X86_64_GOTTPOFF == 22
R_X86_64_TPOFF32 == 23
R_X86_64_GOTPCRELX == 41
R_X86_64_REX_GOTPCRELX == 42

RelocationKind ==
    {"Absolute", "Relative", "Got", "PltRelative", "GotRelative", "TlsGd",
     "TlsLd", "DtpOff", "GotTpOff", "TpOff", "None"}

DigitChar(d) == SubSeq("0123456789", d + 1, d + 1)

\* Display for an unsigned integer: its decimal digits.
RECURSIVE ToDecimal(_)
ToDecimal(n) ==
    IF n < 10 THEN DigitChar(n)
    ELSE ToDecimal(n \div 10) \o DigitChar(n % 10)

\* Variant of MatchRType without the arms for the relaxable GOTPCRELX codes.
MatchRTypeNoGotPcRelX(code) ==
    CASE code = R_X86_64_64 -> Some(<<"Absolute", 8>>)
      [] code = R_X86_64_PC32 -> Some(<<"Relative", 4>>)
      [] code = R_X86_64_GOT32 -> Some(<<"Got", 4>>)
      [] code = R_X86_64_PLT32 -> Some(<<"PltRelative", 4>>)
      [] code = R_X86_64_GOTPCREL -> Some(<<"GotRelative", 4>>)
      [] code = R_X86_64_32 \/ code = R_X86_64_32S -> Some(<<"Absolute", 4>>)
      [] code = R_X86_64_16 -> Some(<<"Absolute", 2>>)
      [] code = R_X86_64_PC16 -> Some(<<"Relative", 2>>)
      [] code = R_X86_64_8 -> Some(<<"Absolute", 1>>)
      [] code = R_X86_64_PC8 -> Some(<<"Relative", 1>>)
      [] code = R_X86_64_TLSGD -> Some(<<"TlsGd", 4>>)
      [] code = R_X86_64_TLSLD -> Some(<<"TlsLd", 4>>)
      [] code = R_X86_64_DTPOFF32 -> Some(<<"DtpOff", 4>>)
      [] code = R_X86_64_GOTTPOFF -> Some(<<"GotTpOff", 4>>)
      [] code = R_X86_64_TPOFF32 -> Some(<<"TpOff", 4>>)
      [] code = R_X86_64_NONE -> Some(<<"None", 0>>)
      [] OTHER -> NoneV

\* The arms of the match in from_raw: Some((kind, size)) for a code with an
\* arm, None for the `_` arm.
MatchRType(code) ==
    CASE code = R_X86_64_64 -> Some(<<"Absolute", 8>>)
      [] code = R_X86_64_PC32 -> Some(<<"Relative", 4>>)
      [] code = R_X86_64_GOT32 -> Some(<<"Got", 4>>)
      [] code = R_X86_64_PLT32 -> Some(<<"PltRelative", 4>>)
      [] code = R_X86_64_GOTPCREL -> Some(<<"GotRelative", 4>>)
      [] code = R_X86_64_32 \/ code = R_X86_64_32S -> Some(<<"Absolute", 4>>)
      [] code = R_X86_64_16 -> Some(<<"Absolute", 2>>)
      [] code = R_X86_64_PC16 -> Some(<<"Relative", 2>>)
      [] code = R_X86_64_8 -> Some(<<"Absolute", 1>>)
      [] code = R_X86_64_PC8 -> Some(<<"Relative", 1>>)
      [] code = R_X86_64_TLSGD -> Some(<<"TlsGd", 4>>)
      [] code = R_X86_64_TLSLD -> Some(<<"TlsLd", 4>>)
      [] code = R_X86_64_DTPOFF32 -> Some(<<"DtpOff", 4>>)
      [] code = R_X86_64_GOTTPOFF -> Some(<<"GotTpOff", 4>>)
      [] code = R_X86_64_GOTPCRELX \/ code = R_X86_64_REX_GOTPCRELX ->
            Some(<<"GotRelative", 4>>)
      [] code = R_X86_64_TPOFF32 -> Some(<<"TpOff", 4>>)
      [] code = R_X86_64_NONE -> Some(<<"None", 0>>)
      [] OTHER -> NoneV

UnsupportedPrefix == "Unsupported relocation type "

\* Variant of from_raw that skips a code without an arm as a no-op
\* relocation instead of failing.
from_raw_skip_unknown(code) ==
    LET m == MatchRType(code)
    IN  IF m.some
        THEN [status |-> "ok", kind |-> m.v[1], byte_size |-> m.v[2]]
        ELSE [status |-> "ok", kind |-> "None", byte_size |-> 0]

from_raw(code) ==
    LET m == MatchRType(code)
    IN  IF m.some
        THEN [status |-> "ok", kind |-> m.v[1], byte_size |-> m.v[2]]
        ELSE [status |-> "err", msg |-> UnsupportedPrefix \o ToDecimal(code)]

\* The codes handed to from_raw: a contiguous range that holds every code
\* with an arm, and two large ones.
RTypes == 0..MaxRType \cup {99999, 2147483647}

RelocIdle ==
    /\ r_type = NoneV
    /\ classified = NoResult
    /\ prev_call = NoneV

(***************************************************************************)
(* u64 values, held as their eight little-endian bytes                     *)
(***************************************************************************)
\* The u64 of a number below 2^31.
U64(n) ==
    <<n % 256, (n \div 256) % 256, (n \div 65536) % 256, (n \div 16777216) % 256,
      0, 0, 0, 0>>

\* a - b byte by byte: the wrapped difference and whether it borrowed.
RECURSIVE SubBytes(_, _, _, _)
SubBytes(a, b, i, borrow) ==
    IF i > 8 THEN [bytes |-> <<>>, overflow |-> borrow = 1]
    ELSE LET d    == a[i] - b[i] - borrow
             rest == SubBytes(a, b, i + 1, IF d < 0 THEN 1 ELSE 0)
         IN  [bytes    |-> <<IF d < 0 THEN d + 256 ELSE d>> \o rest.bytes,
              overflow |-> rest.overflow]

\* a + b byte by byte: the wrapped sum and whether it carried.
RECURSIVE AddBytes(_, _, _, _)
AddBytes(a, b, i, carry) ==
    IF i > 8 THEN [bytes |-> <<>>, overflow |-> carry = 1]
    ELSE LET d    == a[i] + b[i] + carry
             rest == AddBytes(a, b, i + 1, IF d > 255 THEN 1 ELSE 0)
         IN  [bytes    |-> <<IF d > 255 THEN d - 256 ELSE d>> \o rest.bytes,
              overflow |-> rest.overflow]

Sub64(a, b) == SubBytes(a, b, 1, 0)
Add64(a, b) == AddBytes(a, b, 1, 0)

\* A u64 below 2^24, as a number.
IsSmall(a) == \A i \in 4..8 : a[i] = 0
SmallValue(a) == a[1] + 256 * a[2] + 65536 * a[3]

\* Variant of GreaterThanLen that also holds when a equals n.
GreaterThanOrEqualLen(a, n) == ~IsSmall(a) \/ SmallValue(a) >= n

\* a > n for a slice length n.
GreaterThanLen(a, n) == ~IsSmall(a) \/ SmallValue(a) > n

(***************************************************************************)
(* validation.rs                                                           *)
(***************************************************************************)
\* Address of the .got section of the output files considered.
GotBase == U64(4202496)
\* Two symbol values.
Value1 == U64(4198400)
Value2 == U64(4198408)

\* The output files: one that does not parse, one without .got, one whose
\* .got data cannot be read, and ones with two GOT slots.
OutputFiles ==
    {[parses |-> FALSE, got |-> NoneV],
     [parses |-> TRUE, got |-> NoneV],
     [parses |-> TRUE, got |-> Some([address |-> GotBase, data |-> NoneV])]}
    \cup {[parses |-> TRUE,
           got |-> Some([address |-> GotBase, data |-> Some(a \o b)])] :
              a \in {Value1, Value2}, b \in {Value2}}

\* GOT addresses of resolutions: the two slots, the end of the section, and
\* eight and sixteen bytes below the section.
GotAddresses ==
    {GotBase, Add64(GotBase, U64(8)).bytes, Add64(GotBase, U64(16)).bytes,
     Sub64(GotBase, U64(8)).bytes, Sub64(GotBase, U64(16)).bytes}

ResolutionValues ==
    {[tag |-> "Absolute", v |-> Value1], [tag |-> "Address", v |-> Value2],
     [tag |-> "Dynamic"]}

\* The resolutions of the layouts considered.  Those of the kinds that
\* validation skips are given the first GOT slot.
Resolutions ==
    [kind : {"Normal"}, got_address : {NoneV} \cup {Some(a) : a \in GotAddresses},
     value : ResolutionValues]
    \cup [kind : {"IFunc", "GotTlsOffset"}, got_address : {Some(GotBase)},
          value : {[tag |-> "Absolute", v |-> Value1], [tag |-> "Dynamic"]}]

FileLayoutKinds == {"Internal", "Object", "Dynamic", "Epilogue", "NotLoaded"}

\* Outcomes of validate_resolution and of the functions that call it.
VOk == [status |-> "ok"]
VErr(msg, detail) ==
    [status |-> "err", context |-> <<>>, msg |-> msg, detail |-> detail]
VPanic(msg) == [status |-> "panic", msg |-> msg]

\* anyhow's context(): the context message goes in front of an error.
Context(r, msg) ==
    IF r.status = "err" THEN [r EXCEPT !.context = <<msg>> \o @] ELSE r

\* The error of a GOT slot that does not hold the expected value; the
\* message names the resolution kind, the name and the three addresses.
MismatchError(res_kind, name, expected, got_address, address) ==
    VErr("has address, but GOT points to",
         [res_kind |-> res_kind, name |-> name, expected |-> expected,
          got_address |-> got_address, address |-> address])

\* bail!("GOT offset beyond end of GOT 0x{end_offset}")
BeyondEndError(end_offset) ==
    VErr("GOT offset beyond end of GOT", [end_offset |-> end_offset])

\* Variant of validate_resolution that compares only Address values and
\* accepts every Absolute value.
validate_resolution_address_only(name, resolution, got, got_data, checks) ==
    IF resolution.kind \in {"IFunc", "GotTlsOffset"} THEN VOk
    ELSE IF ~resolution.got_address.some THEN VOk
    ELSE
      LET got_address == resolution.got_address.v
          diff        == Sub64(got_address, got.address)
          start       == diff.bytes
          sum         == Add64(start, U64(8))
          end         == sum.bytes
      IN  IF checks /\ diff.overflow THEN VPanic("attempt to subtract with overflow")
          ELSE IF checks /\ sum.overflow THEN VPanic("attempt to add with overflow")
          ELSE IF GreaterThanLen(end, Len(got_data))
               THEN BeyondEndError(end)
          ELSE IF resolution.value.tag # "Address" THEN VOk
          ELSE IF ~IsSmall(start) \/ SmallValue(start) > SmallValue(end)
               THEN VPanic("slice index starts after its end")
          ELSE LET address == SubSeq(got_data, SmallValue(start) + 1, SmallValue(end))
               IN  IF resolution.value.v # address
                   THEN MismatchError(resolution.kind, name, resolution.value.v,
                                      got_address, address)
                   ELSE VOk

\* validate_resolution.  The eight bytes that pod_read_unaligned reads are
\* the u64 itself in the representation used here.
validate_resolution(name, resolution, got, got_data, checks) ==
    IF resolution.kind \in {"IFunc", "GotTlsOffset"} THEN VOk
    ELSE IF ~resolution.got_address.some THEN VOk
    ELSE
      LET got_address == resolution.got_address.v
          diff        == Sub64(got_address, got.address)
          start       == diff.bytes
          sum         == Add64(start, U64(8))
          end         == sum.bytes
      IN  IF checks /\ diff.overflow THEN VPanic("attempt to subtract with overflow")
          ELSE IF checks /\ sum.overflow THEN VPanic("attempt to add with overflow")
          ELSE IF GreaterThanLen(end, Len(got_data))
               THEN BeyondEndError(end)
          ELSE IF resolution.value.tag = "Dynamic" THEN VOk
          ELSE IF ~IsSmall(start) \/ SmallValue(start) > SmallValue(end)
               THEN VPanic("slice index starts after its end")
          ELSE LET address == SubSeq(got_data, SmallValue(start) + 1, SmallValue(end))
               IN  IF resolution.value.v # address
                   THEN MismatchError(resolution.kind, name, resolution.value.v,
                                      got_address, address)
                   ELSE VOk

\* Variant of EnterValidation that tests only the pie flag before it skips.
EnterValidationPieOnly(args, file) ==
    IF ~file.parses
    THEN Context(VErr("Could not parse the file", NoneV), "Failed to parse our output file")
    ELSE IF args.pie THEN VOk
    ELSE IF ~file.got.some
         THEN Context(VErr("Missing .got from output file", NoneV),
                      "Output validation failed")
    ELSE IF ~file.got.v.data.some
         THEN Context(VErr("Invalid ELF section size or offset", NoneV),
                      "Output validation failed")
    ELSE [status |-> "continue"]

\* validate_bytes up to the first loop of validate_object: the parse of the
\* file, the return for relocatable outputs, and the lookup of .got.
EnterValidation(args, file) ==
    IF ~file.parses
    THEN Context(VErr("Could not parse the file", NoneV), "Failed to parse our output file")
    ELSE IF is_relocatable(args) THEN VOk
    ELSE IF ~file.got.some
         THEN Context(VErr("Missing .got from output file", NoneV),
                      "Output validation failed")
    ELSE IF ~file.got.v.data.some
         THEN Context(VErr("Invalid ELF section size or offset", NoneV),
                      "Output validation failed")
    ELSE [status |-> "continue"]

\* Number of resolutions the layout iterated over so far holds.
RECURSIVE SectionCount(_)
SectionCount(files) ==
    IF files = <<>> THEN 0
    ELSE (IF Head(files).kind = "Object" THEN Len(Head(files).sections) ELSE 0)
         + SectionCount(Tail(files))

ResolutionCount(l) == Len(l.globals) + SectionCount(l.files)

ValidateIdle ==
    /\ layout = NoneV
    /\ file_bytes = NoneV
    /\ overflow_checks = FALSE
    /\ v_pc = "idle"
    /\ validated = NoResult

(***************************************************************************)
(* Command lines                                                           *)
(***************************************************************************)
ProgramNames == {"wild"}

TokenSets ==
    { {"-static", "-Bdynamic", "--as-needed", "--no-as-needed",
       "--push-state", "--pop-state", "-la", "-o"},
      {"-pie", "-shared", "--dynamic-linker", "--no-dynamic-linker",
       "--threads=2", "--debug-fuel=1", "-o", "f"},
      {"--threads=0", "--threads=x", "--debug-fuel=x", "--debug-fuel=-1",
       "--hash-style=gnu", "--hash-style=sysv", "--build-id=x", "-x",
       "--help", "-o", "f"},
      {"-L", "-Ld", "-o", "-z", "-plugin", "--sym-info", "-la", "f"},
      {"--time", "--strip-all", "--strip-debug", "--no-string-merge",
       "--validate-output", "--version-script=v", "-Bstatic", "-o"},
      {"--eh-frame-hdr", "-O2", "--prepopulate-maps", "-plugin-opt=y",
       "-dynamic-linker", "-m", "f", "-o"} }

\* The environments a link runs in: the arguments it may be given and the
\* value of WILD_VALIDATE_OUTPUT.  The variable is left unset for the
\* argument sets above and set for command lines made of -o and
\* --validate-output.
Environments ==
    {[tokens |-> t, validate |-> NoneV] : t \in TokenSets}
        \cup {[tokens |-> {"--validate-output", "-o"}, validate |-> v] :
                  v \in {Some("1"), Some("0")}}

(***************************************************************************)
(* Args::parse as a state machine                                          *)
(***************************************************************************)
Init ==
    /\ \E e \in Environments : tokens = e.tokens /\ env_validate = e.validate
    /\ RelocIdle
    /\ ValidateIdle
    /\ FuelIdle
    /\ argv = <<>>
    /\ eof = FALSE
    /\ pc = "start"
    /\ locals = InitLocals(env_validate = Some("1"))
    /\ result = NoResult

\* SaveDir::new()? and `input.next()` that skips the program name.
ParseStart ==
    /\ pc = "start"
    /\ \E io_ok \in BOOLEAN, item \in {NoneV} \cup {Some(n) : n \in ProgramNames} :
          IF ~io_ok
          THEN /\ pc' = "done"
               /\ result' = Err("save_dir: I/O error")
               /\ UNCHANGED <<argv, eof>>
          ELSE /\ pc' = "loop"
               /\ argv' = Yield(argv, item)
               /\ eof' = ~item.some
               /\ UNCHANGED result
    /\ UNCHANGED <<tokens, env_validate, locals, reloc_vars, val_vars, fuel_vars>>

\* One evaluation of `while let Some(arg) = input.next()` and the loop body.
ParseArg ==
    /\ pc = "loop"
    /\ \E item \in NextItems :
          IF ~item.some
          THEN /\ pc' = "finish"
               /\ eof' = TRUE
               /\ UNCHANGED <<argv, locals, result>>
          ELSE LET arg == item.v
                   b   == Branch(arg)
               IN  \E nxt \in IF ConsumesNext(b)
                              THEN (IF Len(argv) + 1 >= MaxArgs + 1
                                    THEN {NoneV}
                                    ELSE {NoneV} \cup {Some(t) : t \in tokens})
                              ELSE {NoneV},
                      io_ok \in IF CallsSaveDir(b) THEN BOOLEAN ELSE {TRUE} :
                      LET r == BranchBody(locals, arg, nxt, io_ok)
                      IN  /\ argv' = IF ConsumesNext(b)
                                     THEN Yield(Append(argv, arg), nxt)
                                     ELSE Append(argv, arg)
                          /\ eof' = (ConsumesNext(b) /\ ~nxt.some)
                          /\ locals' = r.st
                          /\ IF r.err.some
                             THEN pc' = "done" /\ result' = Err(r.err.v)
                             ELSE pc' = "loop" /\ UNCHANGED result
    /\ UNCHANGED <<tokens, env_validate, reloc_vars, val_vars, fuel_vars>>

\* The code after the loop: default num_threads, save_dir.finish()?, and the
\* Args value, which requires an output.
ParseFinish ==
    /\ pc = "finish"
    /\ \E cpus \in 1..MaxCpus, io_ok \in BOOLEAN :
          LET threads == IF locals.num_threads.some THEN locals.num_threads.v ELSE cpus
          IN  result' = IF ~io_ok THEN Err("save_dir: I/O error")
                        ELSE IF ~locals.output.some THEN Err("Missing required argument -o")
                        ELSE Ok(MakeArgs(locals, threads))
    /\ pc' = "done"
    /\ UNCHANGED <<tokens, env_validate, argv, eof, locals, reloc_vars, val_vars, fuel_vars>>

Next == ParseStart \/ ParseArg \/ ParseFinish

Spec == Init /\ [][Next]_vars

TypeOK ==
    /\ pc \in {"idle", "start", "loop", "finish", "done"}
    /\ result.status \in {"none", "ok", "err"}
    /\ classified.status \in {"none", "ok", "err"}
    /\ v_pc \in {"idle", "begin", "globals", "files", "sections", "done"}
    /\ validated.status \in {"none", "ok", "err", "panic"}

(***************************************************************************)
(* Properties of Args::parse and the policy queries (specification Spec)   *)
(***************************************************************************)
Parsed == result.status = "ok"

\* C1: every parsed configuration with output kind StaticExecutable and PIE
\* disabled uses base address 0x400000, and every parsed configuration that
\* is a SharedObject or has PIE enabled uses base address 0.
C1_BaseAddressPolicy ==
    Parsed =>
        /\ (result.args.output_kind = "StaticExecutable" /\ ~result.args.pie
               => base_address(result.args) = NON_PIE_START_MEM_ADDRESS)
        /\ (result.args.output_kind = "SharedObject" \/ result.args.pie
               => base_address(result.args) = 0)

\* C2: an input keeps the modifiers that were on top of the modifier stack
\* when it was recorded: no step of the parser changes an input already
\* recorded, every input appended by a step carries the modifiers in effect
\* before that step, and the returned Args holds the inputs as recorded.
C2_ModifiersCaptured ==
    /\ [][ /\ Len(locals'.inputs) >= Len(locals.inputs)
           /\ \A i \in 1..Len(locals.inputs) : locals'.inputs[i] = locals.inputs[i]
           /\ \A i \in (Len(locals.inputs) + 1)..Len(locals'.inputs) :
                  locals'.inputs[i].modifiers = Last(locals.modifier_stack)
         ]_vars
    /\ [](Parsed => result.args.inputs = locals.inputs)

\* C2 witness: a parsed command line with an input whose modifiers differ
\* from the modifiers in effect at the end of the command line.
C2_Witness ==
    /\ Parsed
    /\ \E i \in 1..Len(result.args.inputs) :
          /\ result.args.inputs[i].modifiers.allow_shared
                 # Last(locals.modifier_stack).allow_shared
          /\ result.args.inputs[i].modifiers.as_needed
                 = Last(locals.modifier_stack).as_needed

\* C7: tls_mode() is LocalExec exactly when the output kind is
\* StaticExecutable, and Preserve for DynamicExecutable and SharedObject,
\* whatever PIE and the other options are.
C7_TlsModeByOutputKind ==
    Parsed =>
        /\ (tls_mode(result.args) = "LocalExec"
               <=> result.args.output_kind = "StaticExecutable")
        /\ (result.args.output_kind \in {"DynamicExecutable", "SharedObject"}
               => tls_mode(result.args) = "Preserve")

\* C7 witness: a parsed static executable with PIE enabled, where the output
\* kind and relocatability disagree.
C7_Witness ==
    /\ Parsed
    /\ result.args.output_kind = "StaticExecutable"
    /\ result.args.pie
    /\ tls_mode(result.args) = "LocalExec"

\* C8 (as claimed): tls_mode() = LocalExec implies is_relocatable() = FALSE.
C8_LocalExecNotRelocatable ==
    Parsed /\ tls_mode(result.args) = "LocalExec" => ~is_relocatable(result.args)

\* C8 (amended): tls_mode() = LocalExec implies the output kind is
\* StaticExecutable, and such a configuration is relocatable exactly when
\* PIE is enabled.
C8_LocalExecStaticOnly ==
    Parsed /\ tls_mode(result.args) = "LocalExec" =>
        /\ result.args.output_kind = "StaticExecutable"
        /\ (is_relocatable(result.args) <=> result.args.pie)

\* C8 witness: a parsed configuration in LocalExec mode that is relocatable.
C8_Witness ==
    /\ Parsed
    /\ tls_mode(result.args) = "LocalExec"
    /\ is_relocatable(result.args)

\* C9: a parsed configuration with debug fuel enabled has num_threads = 1.
C9_DebugFuelSingleThreaded ==
    Parsed /\ result.args.debug_fuel.some => result.args.num_threads = 1

(***************************************************************************)
(* C10: the inputs and the library search path, read off the command line  *)
(***************************************************************************)
\* Options whose value is the following argument.
ValueOptions ==
    {"-L", "-o", "--dynamic-linker", "-dynamic-linker", "-z", "-m",
     "--sym-info", "-plugin"}

\* Position i of the command line holds the value of the option before it.
RECURSIVE IsValue(_, _)
IsValue(line, i) ==
    /\ i >= 3
    /\ line[i - 1] \in ValueOptions
    /\ ~IsValue(line, i - 1)

\* The elements of a set of positions in increasing order.
RECURSIVE Ascending(_)
Ascending(S) ==
    IF S = {} THEN <<>>
    ELSE LET m == CHOOSE x \in S : \A y \in S : x <= y
         IN  <<m>> \o Ascending(S \ {m})

IsInputAt(line, i) ==
    /\ ~IsValue(line, i)
    /\ (StartsWith(line[i], "-l") \/ ~StartsWith(line[i], "-"))

IsSearchPathAt(line, i) ==
    \/ ~IsValue(line, i) /\ StartsWith(line[i], "-L") /\ Len(line[i]) > 2
    \/ IsValue(line, i) /\ line[i - 1] = "-L"

ExpectedInputs(line) ==
    LET pos == Ascending({i \in 2..Len(line) : IsInputAt(line, i)})
    IN  [k \in 1..Len(pos) |->
            IF StartsWith(line[pos[k]], "-l")
            THEN [tag |-> "Lib", name |-> SubSeq(line[pos[k]], 3, Len(line[pos[k]]))]
            ELSE [tag |-> "File", name |-> line[pos[k]]]]

ExpectedSearchPath(line) ==
    LET pos == Ascending({i \in 2..Len(line) : IsSearchPathAt(line, i)})
    IN  [k \in 1..Len(pos) |->
            IF IsValue(line, pos[k]) THEN line[pos[k]]
            ELSE SubSeq(line[pos[k]], 3, Len(line[pos[k]]))]

UnsupportedHashStyleAt(line, i) ==
    /\ StartsWith(line[i], "--hash-style=")
    /\ line[i] # "--hash-style=gnu"

\* C11 (as claimed): once Args::parse has returned for a command line that
\* contains an argument --hash-style=<style> with a style other than gnu, it
\* has returned an error, whatever the other arguments are.
C11_UnsupportedHashStyleFatal ==
    pc = "done" /\ (\E i \in 2..Len(argv) : UnsupportedHashStyleAt(argv, i))
        => result.status = "err"

\* C11 (amended): an argument --hash-style=<style> with a style other than
\* gnu that is not taken as the value of the option before it ends the
\* parse: it is the last argument read and Args::parse returns the error
\* "Unsupported hash-style <style>".
C11_UnsupportedHashStyleFatalUnlessValue ==
    \A i \in 2..Len(argv) :
        UnsupportedHashStyleAt(argv, i) /\ ~IsValue(argv, i) =>
            /\ i = Len(argv)
            /\ pc = "done"
            /\ result = Err("Unsupported hash-style "
                               \o SubSeq(argv[i], Len("--hash-style=") + 1, Len(argv[i])))

\* C11 witness: the parse ended at --hash-style=sysv after the same argument
\* had been taken as the output path and a gnu hash style had been accepted.
C11_Witness ==
    /\ pc = "done"
    /\ result = Err("Unsupported hash-style sysv")
    /\ Len(argv) = 5
    /\ argv[2] = "-o"
    /\ argv[3] = "--hash-style=sysv"
    /\ argv[4] = "--hash-style=gnu"
    /\ argv[5] = "--hash-style=sysv"
    /\ locals.output = Some("--hash-style=sysv")

(***************************************************************************)
(* C14: the modifier stack and --pop-state                                 *)
(***************************************************************************)
\* Number of arguments equal to tok among the first n of the command line.
CountArgs(line, tok, n) ==
    Cardinality({i \in 2..n : line[i] = tok})

\* The same, leaving out arguments taken as the value of an option.
CountParsed(line, tok, n) ==
    Cardinality({i \in 2..n : line[i] = tok /\ ~IsValue(line, i)})

MismatchedPopState == result = Err("Mismatched --pop-state")

\* C14 (as claimed): the modifier stack is not empty while parsing
\* continues, and Args::parse fails with "Mismatched --pop-state" exactly
\* when some prefix of the command line holds more --pop-state arguments
\* than --push-state arguments.
C14_PopStateMismatch ==
    /\ (pc \in {"loop", "finish"} => Len(locals.modifier_stack) >= 1)
    /\ (MismatchedPopState <=>
           \E n \in 2..Len(argv) :
               CountArgs(argv, "--pop-state", n) > CountArgs(argv, "--push-state", n))

\* C14 (amended): counting only the arguments that are not taken as the
\* value of the option before them, the depth of the modifier stack is one
\* more than the --push-state arguments less the --pop-state arguments read
\* so far; the stack is not empty unless the parse has failed with
\* "Mismatched --pop-state", and it fails so exactly when some prefix holds
\* more --pop-state than --push-state arguments; that prefix is then the
\* whole of what was read.
C14_PopStateMismatchAmongParsed ==
    /\ Len(locals.modifier_stack)
           = 1 + CountParsed(argv, "--push-state", Len(argv))
               - CountParsed(argv, "--pop-state", Len(argv))
    /\ (~MismatchedPopState => Len(locals.modifier_stack) >= 1)
    /\ (MismatchedPopState <=>
           \E n \in 2..Len(argv) :
               CountParsed(argv, "--pop-state", n) > CountParsed(argv, "--push-state", n))
    /\ (MismatchedPopState =>
           /\ pc = "done"
           /\ Last(argv) = "--pop-state"
           /\ \A n \in 2..(Len(argv) - 1) :
                  CountParsed(argv, "--pop-state", n) <= CountParsed(argv, "--push-state", n))

\* C14 witness: the parse failed at the second of two --pop-state arguments
\* that followed one --push-state, after a --pop-state that -o had taken as
\* the output path.
C14_Witness ==
    /\ MismatchedPopState
    /\ argv = <<"wild", "-o", "--pop-state", "--push-state", "--pop-state", "--pop-state">>
    /\ locals.modifier_stack = <<>>
    /\ locals.output = Some("--pop-state")

(***************************************************************************)
(* C15: --push-state / --pop-state round trip                              *)
(***************************************************************************)
\* --push-state arguments less --pop-state arguments among the first n.
Depth(line, n) ==
    CountParsed(line, "--push-state", n) - CountParsed(line, "--pop-state", n)

\* The position of the --push-state that the --pop-state at position j
\* closes, or 0 when there is none.
MatchingPush(line, j) ==
    LET cand == {i \in 2..(j - 1) :
                    /\ line[i] = "--push-state"
                    /\ ~IsValue(line, i)
                    /\ Depth(line, i) = Depth(line, j - 1)}
    IN  IF cand = {} THEN 0 ELSE CHOOSE i \in cand : \A k \in cand : k <= i

\* The modifiers in effect after the first i arguments, by scope: a toggle
\* changes them, a --pop-state brings back those in effect before the
\* --push-state it closes, and every other argument leaves them alone.
RECURSIVE ModsAfter(_, _)
ModsAfter(line, i) ==
    IF i <= 1 THEN ModifiersDefault
    ELSE IF IsValue(line, i) THEN ModsAfter(line, i - 1)
    ELSE IF line[i] \in {"-static", "-Bstatic"}
         THEN [ModsAfter(line, i - 1) EXCEPT !.allow_shared = FALSE]
    ELSE IF line[i] = "-Bdynamic"
         THEN [ModsAfter(line, i - 1) EXCEPT !.allow_shared = TRUE]
    ELSE IF line[i] = "--as-needed"
         THEN [ModsAfter(line, i - 1) EXCEPT !.as_needed = TRUE]
    ELSE IF line[i] = "--no-as-needed"
         THEN [ModsAfter(line, i - 1) EXCEPT !.as_needed = FALSE]
    ELSE IF line[i] = "--pop-state" /\ MatchingPush(line, i) # 0
         THEN ModsAfter(line, MatchingPush(line, i) - 1)
    ELSE ModsAfter(line, i - 1)

\* C15: as long as no --pop-state was mismatched, the modifiers in effect
\* after a --pop-state are those that were in effect before the
\* --push-state it closes, and toggles of allow_shared and as_needed between
\* the two reach only the inputs between them: the current modifiers and
\* the modifiers of every recorded input are those that the scopes of the
\* command line give at that point.  --push-state and --pop-state are the
\* arguments read as options, not those taken as the value of an option.
C15_PushPopRoundTrip ==
    ~MismatchedPopState =>
        LET pos == Ascending({i \in 2..Len(argv) : IsInputAt(argv, i)}) IN
        /\ Last(locals.modifier_stack) = ModsAfter(argv, Len(argv))
        /\ Len(locals.inputs) <= Len(pos)
        /\ \A k \in 1..Len(locals.inputs) :
              locals.inputs[k].modifiers = ModsAfter(argv, pos[k] - 1)

\* C15 witness: an input between --push-state and --pop-state was recorded
\* with the toggle made there, and an input after the --pop-state with the
\* modifiers from before the --push-state.
C15_Witness ==
    /\ argv = <<"wild", "--push-state", "-static", "-la", "--pop-state", "-la">>
    /\ Len(locals.inputs) = 2
    /\ ~locals.inputs[1].modifiers.allow_shared
    /\ locals.inputs[2].modifiers = ModifiersDefault
    /\ Last(locals.modifier_stack) = ModifiersDefault
    /\ MatchingPush(argv, 5) = 2

(***************************************************************************)
(* Calls to RelocationKindInfo::from_raw (specification SpecReloc)         *)
(***************************************************************************)
ArgsIdle ==
    /\ tokens = {}
    /\ env_validate = NoneV
    /\ argv = <<>>
    /\ eof = FALSE
    /\ pc = "idle"
    /\ locals = NoneV
    /\ result = NoResult

InitReloc ==
    /\ ArgsIdle
    /\ RelocIdle
    /\ ValidateIdle
    /\ FuelIdle

FromRaw ==
    /\ \E code \in RTypes :
          /\ r_type' = Some(code)
          /\ classified' = from_raw(code)
    /\ prev_call' = IF r_type.some
                    THEN Some([r_type |-> r_type.v, result |-> classified])
                    ELSE NoneV
    /\ UNCHANGED <<args_vars, val_vars, fuel_vars>>

NextReloc == FromRaw

SpecReloc == InitReloc /\ [][NextReloc]_vars

\* The codes of the supported table.
SupportedCodes ==
    {R_X86_64_NONE, R_X86_64_64, R_X86_64_PC32, R_X86_64_GOT32, R_X86_64_PLT32,
     R_X86_64_GOTPCREL, R_X86_64_32, R_X86_64_32S, R_X86_64_16, R_X86_64_PC16,
     R_X86_64_8, R_X86_64_PC8, R_X86_64_TLSGD, R_X86_64_TLSLD,
     R_X86_64_DTPOFF32, R_X86_64_GOTTPOFF, R_X86_64_TPOFF32,
     R_X86_64_GOTPCRELX, R_X86_64_REX_GOTPCRELX}

\* The number an error message names after the fixed text, if any.
CodeNamedBy(msg) ==
    LET rest == StripPrefix(msg, UnsupportedPrefix)
    IN  IF rest.some THEN ParseUsize(rest.v) ELSE NoneV

\* C3: a call of from_raw with a code outside the supported table returns an
\* error whose message names that code and returns no kind, and two
\* consecutive calls with the same code return the same result.
C3_UnsupportedCodeFails ==
    /\ (r_type.some /\ r_type.v \notin SupportedCodes =>
           /\ classified.status = "err"
           /\ CodeNamedBy(classified.msg) = Some(r_type.v)
           /\ "kind" \notin DOMAIN classified)
    /\ (r_type.some /\ prev_call.some /\ prev_call.v.r_type = r_type.v =>
           prev_call.v.result = classified)

\* C3 witness: from_raw was called twice with the code 99999 of the spec's
\* scenario and failed both times.
C3_Witness ==
    /\ r_type = Some(99999)
    /\ prev_call.some
    /\ prev_call.v.r_type = 99999
    /\ classified.status = "err"
    /\ classified.msg = "Unsupported relocation type 99999"

\* C4 (as claimed): for every code of the supported table from_raw succeeds
\* with a kind and a byte width that is one of 1, 2, 4 or 8.
C4_SupportedCodeWidth ==
    r_type.some /\ r_type.v \in SupportedCodes =>
        /\ classified.status = "ok"
        /\ classified.kind \in RelocationKind
        /\ classified.byte_size \in {1, 2, 4, 8}

\* C4 (amended): for every code of the supported table from_raw succeeds
\* with a kind and a byte width; the width is one of 1, 2, 4 or 8 except for
\* R_X86_64_NONE, whose kind is None and whose width is 0, and None is the
\* kind of no other code.
C4_SupportedCodeWidthOrNone ==
    r_type.some /\ r_type.v \in SupportedCodes =>
        /\ classified.status = "ok"
        /\ classified.kind \in RelocationKind
        /\ IF r_type.v = R_X86_64_NONE
           THEN classified.kind = "None" /\ classified.byte_size = 0
           ELSE classified.kind # "None" /\ classified.byte_size \in {1, 2, 4, 8}

\* C4 witness: from_raw classified R_X86_64_NONE as a no-op of width 0 after
\* classifying a code of width 8.
C4_Witness ==
    /\ r_type = Some(R_X86_64_NONE)
    /\ classified = [status |-> "ok", kind |-> "None", byte_size |-> 0]
    /\ prev_call.some
    /\ prev_call.v.result.status = "ok"
    /\ prev_call.v.result.byte_size = 8

(***************************************************************************)
(* validate_bytes (specification SpecValidate).  layout.args is the        *)
(* configuration of the link; the globals and file layouts are added to    *)
(* layout as the loops of validate_object reach them.                      *)
(***************************************************************************)
InitValidate ==
    /\ ArgsIdle
    /\ RelocIdle
    /\ FuelIdle
    /\ \E p \in BOOLEAN, k \in OutputKind :
          layout = [args |-> [pie |-> p, output_kind |-> k],
                    globals |-> <<>>, files |-> <<>>]
    /\ file_bytes \in OutputFiles
    /\ overflow_checks \in BOOLEAN
    /\ v_pc = "begin"
    /\ validated = NoResult

\* validate_bytes and validate_object up to the first loop.
ValidateBytes ==
    /\ v_pc = "begin"
    /\ LET r == EnterValidation(layout.args, file_bytes)
       IN  IF r.status = "continue"
           THEN v_pc' = "globals" /\ UNCHANGED validated
           ELSE v_pc' = "done" /\ validated' = r
    /\ UNCHANGED <<layout, file_bytes, overflow_checks, args_vars, reloc_vars, fuel_vars>>

\* One iteration of `for (symbol_name, symbol_id) in &layout.symbol_db.global_names`,
\* or the end of that loop.
ValidateGlobal ==
    /\ v_pc = "globals"
    /\ \/ /\ v_pc' = "files"
          /\ UNCHANGED <<layout, validated>>
       \/ /\ ResolutionCount(layout) < MaxResolutions
          /\ \E res \in {NoneV} \cup {Some(x) : x \in Resolutions} :
                LET r == IF res.some
                         THEN validate_resolution("sym", res.v, file_bytes.got.v,
                                                  file_bytes.got.v.data.v, overflow_checks)
                         ELSE VOk
                IN  /\ layout' = [layout EXCEPT !.globals =
                                      Append(@, [name |-> "sym", resolution |-> res])]
                    /\ IF r.status = "ok"
                       THEN UNCHANGED <<v_pc, validated>>
                       ELSE /\ v_pc' = "done"
                            /\ validated' = Context(r, "Output validation failed")
    /\ UNCHANGED <<file_bytes, overflow_checks, args_vars, reloc_vars, fuel_vars>>

\* One iteration of `for file in &layout.file_layouts` up to its inner loop,
\* or the end of that loop and the final Ok(()).
ValidateFile ==
    /\ v_pc = "files"
    /\ \/ /\ v_pc' = "done"
          /\ validated' = VOk
          /\ UNCHANGED layout
       \/ /\ Len(layout.files) < MaxFiles
          /\ \E k \in FileLayoutKinds :
                /\ layout' = [layout EXCEPT !.files =
                                  Append(@, IF k = "Object"
                                            THEN [kind |-> k, sections |-> <<>>]
                                            ELSE [kind |-> k])]
                /\ v_pc' = IF k = "Object" THEN "sections" ELSE "files"
          /\ UNCHANGED validated
    /\ UNCHANGED <<file_bytes, overflow_checks, args_vars, reloc_vars, fuel_vars>>

\* One iteration of `for sec in obj.object.sections()`, or the end of that
\* loop.  name is what sec.name_bytes() returns; it is only called for a
\* section that has a resolution.
ValidateSection ==
    /\ v_pc = "sections"
    /\ \/ /\ v_pc' = "files"
          /\ UNCHANGED <<layout, validated>>
       \/ /\ ResolutionCount(layout) < MaxResolutions
          /\ \E res \in {NoneV} \cup {Some(x) : x \in Resolutions},
                name \in {NoneV, Some(".data")} :
                LET r == IF ~res.some THEN VOk
                         ELSE IF ~name.some
                              THEN VErr("Invalid ELF section name offset", NoneV)
                         ELSE validate_resolution(name.v, res.v, file_bytes.got.v,
                                                  file_bytes.got.v.data.v, overflow_checks)
                IN  /\ layout' = [layout EXCEPT !.files[Len(layout.files)].sections =
                                      Append(@, [name |-> name, resolution |-> res])]
                    /\ IF r.status = "ok"
                       THEN UNCHANGED <<v_pc, validated>>
                       ELSE /\ v_pc' = "done"
                            /\ validated' = Context(r, "Output validation failed")
    /\ UNCHANGED <<file_bytes, overflow_checks, args_vars, reloc_vars, fuel_vars>>

NextValidate == ValidateBytes \/ ValidateGlobal \/ ValidateFile \/ ValidateSection

SpecValidate == InitValidate /\ [][NextValidate]_vars

(***************************************************************************)
(* Properties of validation (specification SpecValidate)                   *)
(***************************************************************************)
\* The resolutions validate_object passes to validate_resolution: those of
\* the global symbols and those of the sections of Object files.
GlobalResolutions ==
    {layout.globals[i].resolution.v :
        i \in {j \in 1..Len(layout.globals) : layout.globals[j].resolution.some}}

SectionResolutions ==
    UNION {{layout.files[f].sections[i].resolution.v :
               i \in {j \in 1..Len(layout.files[f].sections) :
                         layout.files[f].sections[j].resolution.some}} :
           f \in {g \in 1..Len(layout.files) : layout.files[g].kind = "Object"}}

\* The .got of the output holds value v in the eight bytes at address addr.
SlotHolds(addr, v) ==
    /\ file_bytes.parses
    /\ file_bytes.got.some
    /\ file_bytes.got.v.data.some
    /\ \E off \in 0..(Len(file_bytes.got.v.data.v) - 8) :
          /\ Add64(file_bytes.got.v.address, U64(off)).bytes = addr
          /\ SubSeq(file_bytes.got.v.data.v, off + 1, off + 8) = v

HasSlotValue(res) == res.got_address.some /\ res.value.tag # "Dynamic"

ValidatedOk == v_pc = "done" /\ validated.status = "ok"

\* C5 (as claimed): when validation of a non-relocatable output succeeds,
\* every resolution of a global symbol or of an Object file's section that
\* has a GOT address and a non-Dynamic value finds its value in its GOT slot.
C5_GotSlotsChecked ==
    ValidatedOk /\ ~is_relocatable(layout.args) =>
        \A res \in GlobalResolutions \cup SectionResolutions :
            HasSlotValue(res) => SlotHolds(res.got_address.v, res.value.v)

\* C5 (amended): when validation of a non-relocatable output succeeds, every
\* resolution of a global symbol or of an Object file's section whose kind
\* is neither IFunc nor GotTlsOffset and that has a GOT address and a
\* non-Dynamic value finds its value in its GOT slot.
C5_GotSlotsCheckedExceptSkippedKinds ==
    ValidatedOk /\ ~is_relocatable(layout.args) =>
        \A res \in GlobalResolutions \cup SectionResolutions :
            HasSlotValue(res) /\ res.kind \notin {"IFunc", "GotTlsOffset"}
                => SlotHolds(res.got_address.v, res.value.v)

\* C5 witness: validation of a non-relocatable output succeeded after it
\* compared the GOT slot of a global symbol and the GOT slot of a section.
C5_Witness ==
    /\ ValidatedOk
    /\ ~is_relocatable(layout.args)
    /\ \E res \in GlobalResolutions : HasSlotValue(res) /\ res.kind = "Normal"
    /\ \E res \in SectionResolutions : HasSlotValue(res) /\ res.kind = "Normal"

\* C6 (as claimed): for a relocatable output validate_bytes returns success
\* whatever the output bytes are.
C6_RelocatableSkipped ==
    v_pc = "done" /\ is_relocatable(layout.args) => validated.status = "ok"

\* C6 (amended): for a relocatable output validate_bytes looks at no .got
\* section and at no resolution; it returns success when the output bytes
\* parse as an ELF file and the error "Failed to parse our output file"
\* when they do not.
C6_RelocatableSkippedAfterParse ==
    v_pc = "done" /\ is_relocatable(layout.args) =>
        /\ layout.globals = <<>> /\ layout.files = <<>>
        /\ IF file_bytes.parses
           THEN validated = VOk
           ELSE /\ validated.status = "err"
                /\ validated.context = <<"Failed to parse our output file">>

\* C6 witness: validate_bytes returned success for a relocatable output
\* whose file has no .got section.
C6_Witness ==
    /\ ValidatedOk
    /\ is_relocatable(layout.args)
    /\ layout.args.output_kind # "StaticExecutable"
    /\ ~layout.args.pie
    /\ file_bytes.parses
    /\ ~file_bytes.got.some

\* validate_bytes failed inside a call of validate_resolution, and the
\* global symbol or section whose resolution that call was given.
FailedInResolution ==
    /\ v_pc = "done"
    /\ validated.status \in {"err", "panic"}
    /\ ResolutionCount(layout) > 0
    /\ (validated.status = "err" => validated.msg # "Invalid ELF section name offset")

Culprit ==
    IF layout.files # <<>>
    THEN Last(Last(layout.files).sections)
    ELSE Last(layout.globals)

\* The GOT address is that of an eight-byte slot of the .got data.
SlotInRange(addr) ==
    \E off \in 0..(Len(file_bytes.got.v.data.v) - 8) :
        Add64(file_bytes.got.v.address, U64(off)).bytes = addr

\* C13 (as claimed): for a non-relocatable output no call of
\* validate_resolution on a resolution with a Dynamic value fails, whatever
\* its GOT address and the .got contents are.
C13_DynamicNeverFails ==
    FailedInResolution => Culprit.resolution.v.value.tag # "Dynamic"

\* C13 (amended): the GOT slot of a resolution with a Dynamic value is never
\* read or compared.  Validation fails on such a resolution only when its
\* kind is checked at all, it has a GOT address, and that address is not
\* the address of a slot of the .got data; the failure is then the error
\* "GOT offset beyond end of GOT" or, in a build with overflow checks and
\* for an address below the start of .got, the panic of the subtraction.
C13_DynamicFailsOnlyOnOffset ==
    FailedInResolution /\ Culprit.resolution.v.value.tag = "Dynamic" =>
        LET res == Culprit.resolution.v IN
        /\ res.kind = "Normal"
        /\ res.got_address.some
        /\ ~SlotInRange(res.got_address.v)
        /\ \/ /\ validated.status = "err"
              /\ validated.msg = "GOT offset beyond end of GOT"
              /\ validated.context = <<"Output validation failed">>
           \/ /\ validated.status = "panic"
              /\ overflow_checks
              /\ Sub64(res.got_address.v, file_bytes.got.v.address).overflow
              /\ validated.msg = "attempt to subtract with overflow"

\* C13 witness: validation passed a global symbol whose Dynamic resolution
\* has the first GOT slot and then failed on a section whose Dynamic
\* resolution has the address just past the last slot.
C13_Witness ==
    /\ FailedInResolution
    /\ ~is_relocatable(layout.args)
    /\ Len(layout.globals) = 1
    /\ layout.globals[1].resolution.some
    /\ layout.globals[1].resolution.v.value.tag = "Dynamic"
    /\ layout.globals[1].resolution.v.got_address = Some(GotBase)
    /\ layout.files # <<>>
    /\ Culprit.resolution.v.value.tag = "Dynamic"
    /\ Culprit.resolution.v.got_address = Some(Add64(GotBase, U64(16)).bytes)
    /\ validated.msg = "GOT offset beyond end of GOT"

\* The resolutions validate_resolution was called with: those of the global
\* symbols and those of the sections whose name could be read.
CalledResolutions ==
    GlobalResolutions
    \cup UNION {{layout.files[f].sections[i].resolution.v :
                    i \in {j \in 1..Len(layout.files[f].sections) :
                              /\ layout.files[f].sections[j].resolution.some
                              /\ layout.files[f].sections[j].name.some}} :
                f \in {g \in 1..Len(layout.files) : layout.files[g].kind = "Object"}}

\* C16: validate_resolution never panics, and for every resolution with a
\* GOT address that it was called with, either the address is that of an
\* eight-byte slot lying within the .got data or validation returned the
\* error "GOT offset beyond end of GOT" for it; no GOT address, one below
\* the start of .got included, gets past the offset check by wrapping.
C16_GotSlotInRangeOrError ==
    /\ validated.status # "panic"
    /\ \A res \in CalledResolutions :
          res.got_address.some =>
              \/ SlotInRange(res.got_address.v)
              \/ /\ FailedInResolution
                 /\ Culprit.resolution = Some(res)
                 /\ validated.msg = "GOT offset beyond end of GOT"

(***************************************************************************)
(* Threads calling use_debug_fuel_on_last (specification SpecFuel)         *)
(***************************************************************************)
\* The counter is what --debug-fuel=<n> created it with, or absent.
InitFuel ==
    /\ ArgsIdle
    /\ RelocIdle
    /\ ValidateIdle
    /\ budget \in {NoneV} \cup {Some(n) : n \in (-1)..MaxFuel}
    /\ debug_fuel = budget
    /\ in_call = [t \in Threads |-> NoneV]
    /\ calls = <<>>
    /\ cb_calls = <<>>

\* Thread t enters use_debug_fuel_on_last and evaluates use_debug_fuel().
CallUseDebugFuel(t) ==
    /\ ~in_call[t].some
    /\ Len(calls) < MaxCalls
    /\ LET r == use_debug_fuel(debug_fuel)
       IN  /\ debug_fuel' = r.fuel
           /\ calls' = Append(calls, [thread |-> t, value |-> r.value, ret |-> NoneV])
           /\ in_call' = [in_call EXCEPT ![t] = Some(Len(calls) + 1)]
    /\ UNCHANGED <<budget, cb_calls, args_vars, reloc_vars, val_vars>>

\* Thread t runs the match arm for the value it obtained and returns.
ReturnFromOnLast(t) ==
    /\ in_call[t].some
    /\ LET k == in_call[t].v
           m == MatchFuel(calls[k].value)
       IN  /\ cb_calls' = IF m.last_cb THEN Append(cb_calls, k) ELSE cb_calls
           /\ calls' = [calls EXCEPT ![k].ret = Some(m.ret)]
    /\ in_call' = [in_call EXCEPT ![t] = NoneV]
    /\ UNCHANGED <<debug_fuel, budget, args_vars, reloc_vars, val_vars>>

NextFuel == \E t \in Threads : CallUseDebugFuel(t) \/ ReturnFromOnLast(t)

SpecFuel == InitFuel /\ [][NextFuel]_vars

\* The calls that have returned true.
ReturnedTrue == {k \in 1..Len(calls) : calls[k].ret = Some(TRUE)}
AllReturned == \A k \in 1..Len(calls) : calls[k].ret.some

\* C12: with a budget of N >= 0, whatever the interleaving, every call
\* lowers the counter by exactly one, the k-th call to reach the counter
\* returns true exactly when k <= N, so that at most N calls return true
\* and exactly N once N or more calls have all returned; last_cb is never
\* invoked when N = 0 and otherwise only by the N-th call, the one that took
\* the last unit of fuel, exactly once.
C12_FuelAccounting ==
    budget.some /\ budget.v >= 0 =>
        LET N == budget.v IN
        /\ debug_fuel = Some(N - Len(calls))
        /\ \A k \in 1..Len(calls) :
              /\ calls[k].value = N - k
              /\ calls[k].ret.some => calls[k].ret.v = (k <= N)
        /\ Cardinality(ReturnedTrue) <= N
        /\ (AllReturned /\ Len(calls) >= N => Cardinality(ReturnedTrue) = N)
        /\ cb_calls \in {<<>>, <<N>>}
        /\ (N = 0 => cb_calls = <<>>)
        /\ (N >= 1 /\ Len(calls) >= N /\ calls[N].ret.some => cb_calls = <<N>>)

\* C12 witness: with a budget of 2 and two threads inside the function at
\* once, the call that took the last unit returned after a later call had
\* returned false; two calls returned true and last_cb ran once.
C12_Witness ==
    /\ budget = Some(2)
    /\ Len(calls) = 4
    /\ AllReturned
    /\ calls[1].thread # calls[2].thread
    /\ calls[3].ret = Some(FALSE)
    /\ Cardinality(ReturnedTrue) = 2
    /\ cb_calls = <<2>>
    /\ debug_fuel = Some(-2)
====
